---- MODULE Spec2Model ----
\* Model of src/dialog.rs of rfd: the FileDialog / AsyncFileDialog builders,
\* their terminal operations, and the MessageDialog builder.
\* The backend (FilePickerDialogImpl, AsyncFilePickerDialogImpl,
\* MessageDialogImpl, the crate::backend functions) and FileHandle live
\* outside dialog.rs; they are modelled from the specification, section 4.5.
EXTENDS Naturals, Sequences, FiniteSets, TLC

\* ------------------------------------------------------------------ bounds

\* Total number of builder calls (add_filter, set_directory, set_text)
\* explored in one behaviour.
MaxCalls == 3

\* ------------------------------------------------------------ input sets

Slots == {1, 2}

\* (name, extensions) arguments tried for add_filter; one has no extensions.
AddFilterArgs == { <<"Images", <<"png", "jpg">>>>, <<"Any", <<>>>> }

\* The builders a caller holds at once: a blocking and an asynchronous file
\* dialog, two of either, or two message dialogs.
KindPairs ==
    { <<"sync", "sync">>, <<"sync", "async">>, <<"async", "async">>,
      <<"message", "message">> }

Dirs == {"/home", "rel/dir"}
Paths == {"/a.txt", "/b.png"}
Folder == "/home/docs"
SavePath == "/new.txt"
Texts == {"", "Delete?", "Saved", "Retry"}

\* ---------------------------------------------------------- Option<T>

None == <<>>
Some(x) == <<x>>

\* ------------------------------------------------------------ Filter

Filter(name, extensions) == [name |-> name, extensions |-> extensions]

\* ------------------------------------------------------------ FileDialog

FileDialog_new == [filters |-> <<>>, starting_directory |-> None]

\* Variant: the new filter is inserted at the front.
FileDialog_add_filter_front(self, name, extensions) ==
    [self EXCEPT !.filters =
        <<Filter(name, [i \in 1..Len(extensions) |-> extensions[i]])>> \o @]

\* Variant: the builder is rebuilt from the default with the grown filters.
FileDialog_add_filter_rebuilt(self, name, extensions) ==
    [FileDialog_new EXCEPT !.filters =
        Append(self.filters, Filter(name, [i \in 1..Len(extensions) |-> extensions[i]]))]

FileDialog_add_filter(self, name, extensions) ==
    [self EXCEPT !.filters =
        Append(@, Filter(name, [i \in 1..Len(extensions) |-> extensions[i]]))]

\* Variant: a directory already set is kept.
FileDialog_set_directory_keep_first(self, path) ==
    IF self.starting_directory = None
    THEN [self EXCEPT !.starting_directory = Some(path)]
    ELSE self

FileDialog_set_directory(self, path) ==
    [self EXCEPT !.starting_directory = Some(path)]

\* --------------------------------------------------------- AsyncFileDialog

AsyncFileDialog_new == [file_dialog |-> FileDialog_new]

AsyncFileDialog_add_filter(self, name, extensions) ==
    [self EXCEPT !.file_dialog = FileDialog_add_filter(@, name, extensions)]

\* Variant: the result of the inner call is not stored back.
AsyncFileDialog_set_directory_dropped(self, path) == self

AsyncFileDialog_set_directory(self, path) ==
    [self EXCEPT !.file_dialog = FileDialog_set_directory(@, path)]

\* ------------------------------------------------------- user's choice

\* What the user does in the open native dialog: dismisses it, or confirms a
\* selection (a sequence of paths; only pick_files lets it hold zero or many).
Cancel == [kind |-> "cancel", sel |-> <<>>]
Confirm(sel) == [kind |-> "confirm", sel |-> sel]
NoChoice == [kind |-> "none", sel |-> <<>>]

Selections == { <<>>, <<"/a.txt", "/b.png">>, <<"/b.png", "/a.txt">> }

Choices(op) ==
    CASE op = "pick_file"   -> {Cancel} \cup {Confirm(<<p>>) : p \in Paths}
      [] op = "pick_files"  -> {Cancel} \cup {Confirm(sel) : sel \in Selections}
      [] op = "pick_folder" -> {Cancel, Confirm(<<Folder>>)}
      [] op = "save_file"   -> {Cancel, Confirm(<<SavePath>>)}

\* ------------------------------------------ native dispatch layer (backend)

\* Cancellation maps to absent; a zero-file multi-selection too.
FilePickerDialogImpl_pick_file(cfg, c) ==
    IF c.kind = "cancel" THEN None ELSE Some(c.sel[1])

FilePickerDialogImpl_pick_files(cfg, c) ==
    IF c.kind = "cancel" \/ c.sel = <<>> THEN None ELSE Some(c.sel)

backend_pick_folder(cfg, c) ==
    IF c.kind = "cancel" THEN None ELSE Some(c.sel[1])

backend_save_file(cfg, c) ==
    IF c.kind = "cancel" THEN None ELSE Some(c.sel[1])

FileHandle_wrap(path) == [path |-> path]

\* The value an asynchronous dialog's future resolves with once the user has
\* made the choice c.
FutureOutput(op, c) ==
    IF c.kind = "cancel" THEN None
    ELSE IF op = "pick_files"
         THEN IF c.sel = <<>> THEN None
              ELSE Some([i \in 1..Len(c.sel) |-> FileHandle_wrap(c.sel[i])])
         ELSE Some(FileHandle_wrap(c.sel[1]))

\* ----------------------------------------------- FileDialog terminal ops

\* Each returns the call it makes on the backend and the value it returns.
\* Variant: the single-file operation opens the folder dialog.
FileDialog_pick_file_as_folder(self, c) ==
    [call |-> [op |-> "pick_folder", cfg |-> self],
     ret  |-> IF c.kind = "cancel" THEN None ELSE Some(Folder)]

FileDialog_pick_file(self, c) ==
    [call |-> [op |-> "pick_file", cfg |-> self],
     ret  |-> FilePickerDialogImpl_pick_file(self, c)]

\* Variant: an absent result is turned into an empty list.
FileDialog_pick_files_or_default(self, c) ==
    [call |-> [op |-> "pick_files", cfg |-> self],
     ret  |-> IF FilePickerDialogImpl_pick_files(self, c) = None
              THEN Some(<<>>)
              ELSE FilePickerDialogImpl_pick_files(self, c)]

FileDialog_pick_files(self, c) ==
    [call |-> [op |-> "pick_files", cfg |-> self],
     ret  |-> FilePickerDialogImpl_pick_files(self, c)]

FileDialog_pick_folder(self, c) ==
    [call |-> [op |-> "pick_folder", cfg |-> self],
     ret  |-> backend_pick_folder(self, c)]

FileDialog_save_file(self, c) ==
    [call |-> [op |-> "save_file", cfg |-> self],
     ret  |-> backend_save_file(self, c)]

\* ------------------------------------------ AsyncFileDialog terminal ops

\* Each returns the call it makes on the backend; the backend's future is
\* returned to the caller as it is.
\* Variant: a default FileDialog is dispatched instead of the wrapped one.
AsyncFileDialog_pick_file_default(self) == [op |-> "pick_file", cfg |-> FileDialog_new]

AsyncFileDialog_pick_file(self) == [op |-> "pick_file", cfg |-> self.file_dialog]

AsyncFileDialog_pick_files(self) == [op |-> "pick_files", cfg |-> self.file_dialog]

AsyncFileDialog_pick_folder(self) == [op |-> "pick_folder", cfg |-> self.file_dialog]

AsyncFileDialog_save_file(self) == [op |-> "save_file", cfg |-> self.file_dialog]

\* ---------------------------------------------------------- MessageDialog

Levels == {"Info", "Warning", "Error"}
Buttons == {"Ok", "OkCancle", "YesNo"}

MessageLevel_default == "Info"

MessageButtons_default == "Ok"

MessageDialog_new ==
    [text |-> "", level |-> MessageLevel_default, buttons |-> MessageButtons_default]

\* Variant: a text already set is kept.
MessageDialog_set_text_keep_first(self, text) ==
    IF self.text = "" THEN [self EXCEPT !.text = text] ELSE self

MessageDialog_set_text(self, text) == [self EXCEPT !.text = text]

\* Variant: show presents the text with the default level.
MessageDialog_show_default_level(self) ==
    [op |-> "show", cfg |-> [self EXCEPT !.level = MessageLevel_default]]

\* The call show makes on MessageDialogImpl.
MessageDialog_show(self) == [op |-> "show", cfg |-> self]

\* The MessageDialog values crate code can build by setting level and buttons
\* (the fields are pub(crate)); the text is left to set_text.
MessageDialogs == [text : {""}, level : Levels, buttons : Buttons]

\* ------------------------------------------------------------ ownership

\* Variant: the method borrows self, the binding stays usable.
MoveOut_borrow(owned, s) == owned

\* A method taking `self` by value moves the value out of the caller's
\* binding: the binding is dead afterwards.
MoveOut(owned, s) == [owned EXCEPT ![s] = FALSE]

\* ------------------------------------------------------------------ state

VARIABLES
    kind,       \* slot -> which builder type the caller's binding holds
    live,       \* slot -> the binding still owns a builder value
    builder,    \* slot -> the builder value
    hist,       \* slot -> the builder calls applied so far, in call order
    uses,       \* slot -> the values (by generation) that were passed as self
    handed,     \* slot -> the calls made on the native layer
    called,     \* slot -> the terminal method the caller invoked, "" before
    pc,         \* slot -> "building", "awaiting" (future pending) or "done"
    choice,     \* slot -> what the user did in the slot's native dialog
    result,     \* slot -> the value the terminal operation produced
    completed   \* the slots whose futures resolved, in resolution order

vars == <<kind, live, builder, hist, uses, handed, called, pc, choice, result,
          completed>>

New(k) ==
    CASE k = "sync"    -> FileDialog_new
      [] k = "async"   -> AsyncFileDialog_new
      [] k = "message" -> MessageDialog_new

InitRest ==
    /\ live = [s \in Slots |-> TRUE]
    /\ hist = [s \in Slots |-> <<>>]
    /\ uses = [s \in Slots |-> <<>>]
    /\ handed = [s \in Slots |-> <<>>]
    /\ called = [s \in Slots |-> ""]
    /\ pc = [s \in Slots |-> "building"]
    /\ choice = [s \in Slots |-> NoChoice]
    /\ result = [s \in Slots |-> None]
    /\ completed = <<>>

\* Every binding holds a builder fresh from new().
Init ==
    /\ kind \in KindPairs
    /\ builder = [s \in Slots |-> New(kind[s])]
    /\ InitRest

\* Message dialogs built inside the crate: any text, level and button set.
InitShow ==
    /\ kind = <<"message", "message">>
    /\ builder \in [Slots -> MessageDialogs]
    /\ InitRest

RECURSIVE SumLen(_, _)
SumLen(f, S) ==
    IF S = {} THEN 0
    ELSE LET s == CHOOSE x \in S : TRUE IN Len(f[s]) + SumLen(f, S \ {s})

TotalCalls == SumLen(hist, Slots)

\* The generation of the value the binding holds: one per builder call.
Gen(s) == Len(hist[s])

AddFilterCall(name, extensions) ==
    [op |-> "add_filter", name |-> name, extensions |-> extensions, arg |-> ""]
SetDirectoryCall(path) ==
    [op |-> "set_directory", name |-> "", extensions |-> <<>>, arg |-> path]
SetTextCall(text) ==
    [op |-> "set_text", name |-> "", extensions |-> <<>>, arg |-> text]

\* A builder method: consumes self, returns the new value to the binding.
BuilderCall(s, k, new, call) ==
    /\ kind[s] = k
    /\ live[s]
    /\ TotalCalls < MaxCalls
    /\ builder' = [builder EXCEPT ![s] = new]
    /\ hist' = [hist EXCEPT ![s] = Append(@, call)]
    /\ uses' = [uses EXCEPT ![s] = Append(@, Gen(s))]
    /\ UNCHANGED <<kind, live, handed, called, pc, choice, result, completed>>

FileDialogAddFilter(s) ==
    \E a \in AddFilterArgs :
        BuilderCall(s, "sync", FileDialog_add_filter(builder[s], a[1], a[2]),
                    AddFilterCall(a[1], a[2]))

FileDialogSetDirectory(s) ==
    \E p \in Dirs :
        BuilderCall(s, "sync", FileDialog_set_directory(builder[s], p),
                    SetDirectoryCall(p))

AsyncFileDialogAddFilter(s) ==
    \E a \in AddFilterArgs :
        BuilderCall(s, "async", AsyncFileDialog_add_filter(builder[s], a[1], a[2]),
                    AddFilterCall(a[1], a[2]))

AsyncFileDialogSetDirectory(s) ==
    \E p \in Dirs :
        BuilderCall(s, "async", AsyncFileDialog_set_directory(builder[s], p),
                    SetDirectoryCall(p))

MessageDialogSetText(s) ==
    \E t \in Texts :
        BuilderCall(s, "message", MessageDialog_set_text(builder[s], t),
                    SetTextCall(t))

Handed(s, call) == [op |-> call.op, cfg |-> call.cfg, value |-> Gen(s)]

\* A blocking terminal operation: consumes self, calls the backend, which
\* returns once the user has dismissed the dialog.
SyncTerminal(s, m, c, r) ==
    /\ kind[s] = "sync"
    /\ live[s]
    /\ live' = MoveOut(live, s)
    /\ uses' = [uses EXCEPT ![s] = Append(@, Gen(s))]
    /\ handed' = [handed EXCEPT ![s] = Append(@, Handed(s, r.call))]
    /\ called' = [called EXCEPT ![s] = m]
    /\ choice' = [choice EXCEPT ![s] = c]
    /\ result' = [result EXCEPT ![s] = r.ret]
    /\ pc' = [pc EXCEPT ![s] = "done"]
    /\ UNCHANGED <<kind, builder, hist, completed>>

FileDialogPickFile(s) ==
    \E c \in Choices("pick_file") :
        SyncTerminal(s, "pick_file", c, FileDialog_pick_file(builder[s], c))

FileDialogPickFiles(s) ==
    \E c \in Choices("pick_files") :
        SyncTerminal(s, "pick_files", c, FileDialog_pick_files(builder[s], c))

FileDialogPickFolder(s) ==
    \E c \in Choices("pick_folder") :
        SyncTerminal(s, "pick_folder", c, FileDialog_pick_folder(builder[s], c))

FileDialogSaveFile(s) ==
    \E c \in Choices("save_file") :
        SyncTerminal(s, "save_file", c, FileDialog_save_file(builder[s], c))

\* An asynchronous terminal operation: consumes self, hands the wrapped
\* FileDialog to the backend and returns its future, still pending.
AsyncTerminal(s, m, call) ==
    /\ kind[s] = "async"
    /\ live[s]
    /\ live' = MoveOut(live, s)
    /\ uses' = [uses EXCEPT ![s] = Append(@, Gen(s))]
    /\ handed' = [handed EXCEPT ![s] = Append(@, Handed(s, call))]
    /\ called' = [called EXCEPT ![s] = m]
    /\ pc' = [pc EXCEPT ![s] = "awaiting"]
    /\ UNCHANGED <<kind, builder, hist, choice, result, completed>>

AsyncFileDialogPickFile(s) ==
    AsyncTerminal(s, "pick_file", AsyncFileDialog_pick_file(builder[s]))

AsyncFileDialogPickFiles(s) ==
    AsyncTerminal(s, "pick_files", AsyncFileDialog_pick_files(builder[s]))

AsyncFileDialogPickFolder(s) ==
    AsyncTerminal(s, "pick_folder", AsyncFileDialog_pick_folder(builder[s]))

AsyncFileDialogSaveFile(s) ==
    AsyncTerminal(s, "save_file", AsyncFileDialog_save_file(builder[s]))

\* The user dismisses an open asynchronous dialog: its future resolves.
NativeComplete(s) ==
    /\ pc[s] = "awaiting"
    /\ LET op == handed[s][Len(handed[s])].op IN
       \E c \in Choices(op) :
           /\ choice' = [choice EXCEPT ![s] = c]
           /\ result' = [result EXCEPT ![s] = FutureOutput(op, c)]
    /\ pc' = [pc EXCEPT ![s] = "done"]
    /\ completed' = Append(completed, s)
    /\ UNCHANGED <<kind, live, builder, hist, uses, handed, called>>

\* show: consumes self, presents the message box, returns nothing.
MessageDialogShow(s) ==
    /\ kind[s] = "message"
    /\ live[s]
    /\ live' = MoveOut(live, s)
    /\ uses' = [uses EXCEPT ![s] = Append(@, Gen(s))]
    /\ handed' = [handed EXCEPT ![s] = Append(@, Handed(s, MessageDialog_show(builder[s])))]
    /\ called' = [called EXCEPT ![s] = "show"]
    /\ pc' = [pc EXCEPT ![s] = "done"]
    /\ UNCHANGED <<kind, builder, hist, choice, result, completed>>

Next ==
    \E s \in Slots :
        \/ FileDialogAddFilter(s)
        \/ FileDialogSetDirectory(s)
        \/ AsyncFileDialogAddFilter(s)
        \/ AsyncFileDialogSetDirectory(s)
        \/ MessageDialogSetText(s)
        \/ FileDialogPickFile(s)
        \/ FileDialogPickFiles(s)
        \/ FileDialogPickFolder(s)
        \/ FileDialogSaveFile(s)
        \/ AsyncFileDialogPickFile(s)
        \/ AsyncFileDialogPickFiles(s)
        \/ AsyncFileDialogPickFolder(s)
        \/ AsyncFileDialogSaveFile(s)
        \/ NativeComplete(s)
        \/ MessageDialogShow(s)

\* The message dialog's operations alone.
NextShow ==
    \E s \in Slots :
        \/ MessageDialogSetText(s)
        \/ MessageDialogShow(s)

Spec == Init /\ [][Next]_vars

SpecShow == InitShow /\ [][NextShow]_vars

\* ------------------------------------------------- what the calls ask for

IsFileDialog(s) == kind[s] \in {"sync", "async"}

\* The FileDialog configuration inside a builder value of kind k.
ConfigOf(k, b) == IF k = "async" THEN b.file_dialog ELSE b

Config(s) == ConfigOf(kind[s], builder[s])

IsAddFilter(c) == c.op = "add_filter"
IsSetDirectory(c) == c.op = "set_directory"

\* One Filter per add_filter call of h, in call order, with the call's
\* name and extensions.
ExpectedFilters(h) ==
    LET f == SelectSeq(h, IsAddFilter)
    IN  [i \in 1..Len(f) |-> [name |-> f[i].name, extensions |-> f[i].extensions]]

\* The argument of the last call of h of its kind (set_directory, set_text),
\* absent when h holds none.
ExpectedDirectory(h) ==
    LET d == SelectSeq(h, IsSetDirectory)
    IN  IF d = <<>> THEN None ELSE Some(d[Len(d)].arg)

ExpectedConfig(h) ==
    [filters |-> ExpectedFilters(h), starting_directory |-> ExpectedDirectory(h)]

ExpectedText(h) == IF h = <<>> THEN "" ELSE h[Len(h)].arg

Count(seq, x) == Cardinality({i \in 1..Len(seq) : seq[i] = x})

NoDuplicates(seq) == \A i, j \in 1..Len(seq) : seq[i] = seq[j] => i = j

\* The same calls applied to a synchronous FileDialog fresh from new().
RECURSIVE SyncReplay(_)
SyncReplay(h) ==
    IF h = <<>> THEN FileDialog_new
    ELSE LET c == h[Len(h)]
             before == SyncReplay(SubSeq(h, 1, Len(h) - 1))
         IN  IF IsAddFilter(c)
             THEN FileDialog_add_filter(before, c.name, c.extensions)
             ELSE FileDialog_set_directory(before, c.arg)

\* ------------------------------------------------------------------ C1

\* C1: after any sequence of add_filter calls (interleaved with
\* set_directory) on a FileDialog or AsyncFileDialog fresh from new(), the
\* configuration holds exactly one Filter per call, in call order, the i-th
\* with the name and the extensions of the i-th call; so does every
\* configuration handed to the native layer.
C1_FiltersInCallOrder ==
    \A s \in Slots :
        IsFileDialog(s) =>
            /\ Config(s).filters = ExpectedFilters(hist[s])
            /\ Len(Config(s).filters) = Len(SelectSeq(hist[s], IsAddFilter))
            /\ \A i \in 1..Len(handed[s]) :
                   handed[s][i].cfg.filters = ExpectedFilters(hist[s])

\* Two add_filter calls with different arguments around a set_directory.
C1_Witness ==
    \E s \in Slots :
        /\ IsFileDialog(s)
        /\ Len(hist[s]) = 3
        /\ IsAddFilter(hist[s][1])
        /\ IsSetDirectory(hist[s][2])
        /\ IsAddFilter(hist[s][3])
        /\ hist[s][1].name # hist[s][3].name
        /\ Len(Config(s).filters) = 2

\* ------------------------------------------------------------------ C2

\* C2: once set_directory has been called, starting_directory is present
\* and is the path of the most recent set_directory call, and nothing else.
C2_LastDirectoryWins ==
    \A s \in Slots :
        (IsFileDialog(s) /\ SelectSeq(hist[s], IsSetDirectory) # <<>>) =>
            LET d == SelectSeq(hist[s], IsSetDirectory)
            IN  /\ Len(Config(s).starting_directory) = 1
                /\ Config(s).starting_directory[1] = d[Len(d)].arg
                /\ \A i \in 1..Len(handed[s]) :
                       handed[s][i].cfg.starting_directory = Some(d[Len(d)].arg)

\* set_directory called twice with different paths.
C2_Witness ==
    \E s \in Slots :
        /\ IsFileDialog(s)
        /\ LET d == SelectSeq(hist[s], IsSetDirectory)
           IN  /\ Len(d) >= 2
               /\ d[1].arg # d[Len(d)].arg
               /\ Config(s).starting_directory = Some(d[Len(d)].arg)

\* ------------------------------------------------------------------ C3

\* C3: synchronous pick_file returns absent when the user cancels and
\* present(P) when the user confirms P: the native layer's result, which is
\* either absent or present.
C3_PickFileResult ==
    \A s \in Slots :
        (kind[s] = "sync" /\ called[s] = "pick_file") =>
            /\ pc[s] = "done"
            /\ Len(handed[s]) >= 1
            /\ handed[s][1].op = "pick_file"
            /\ choice[s].kind = "cancel" => result[s] = None
            /\ choice[s].kind = "confirm" => result[s] = Some(choice[s].sel[1])
            /\ result[s] = FilePickerDialogImpl_pick_file(handed[s][1].cfg, choice[s])
            /\ result[s] = None \/ \E p \in Paths : result[s] = Some(p)

\* One pick_file cancelled, another confirmed with a path.
C3_Witness ==
    /\ kind = <<"sync", "sync">>
    /\ called = <<"pick_file", "pick_file">>
    /\ choice[1] = Cancel
    /\ result[1] = None
    /\ choice[2] = Confirm(<<"/b.png">>)
    /\ result[2] = Some("/b.png")

\* ------------------------------------------------------------------ C4

\* C4: synchronous pick_files returns absent or a present non-empty
\* sequence: the confirmed selection in its order, and absent for both a
\* cancellation and a zero-file selection.
C4_PickFilesNeverEmpty ==
    \A s \in Slots :
        (kind[s] = "sync" /\ called[s] = "pick_files") =>
            /\ result[s] # Some(<<>>)
            /\ result[s] = None \/ (Len(result[s]) = 1 /\ Len(result[s][1]) >= 1)
            /\ choice[s].kind = "cancel" => result[s] = None
            /\ (choice[s].kind = "confirm" /\ choice[s].sel = <<>>) => result[s] = None
            /\ (choice[s].kind = "confirm" /\ choice[s].sel # <<>>) =>
                   result[s] = Some(choice[s].sel)

\* A confirmed selection of two files beside a zero-file selection.
C4_Witness ==
    /\ kind = <<"sync", "sync">>
    /\ called = <<"pick_files", "pick_files">>
    /\ choice[1] = Confirm(<<"/a.txt", "/b.png">>)
    /\ result[1] = Some(<<"/a.txt", "/b.png">>)
    /\ choice[2] = Confirm(<<>>)
    /\ result[2] = None

\* ------------------------------------------------------------------ C5

\* C5: an asynchronous pick_file resolves at most once, with the choice made
\* in its own dialog, and dispatches its own configuration, whatever the
\* other dialog does and in whichever order the two are completed.
C5_AsyncPickFileIndependent ==
    \A s \in Slots :
        (kind[s] = "async" /\ called[s] = "pick_file") =>
            /\ Count(completed, s) <= 1
            /\ (pc[s] = "done") = (Count(completed, s) = 1)
            /\ pc[s] = "awaiting" => (result[s] = None /\ choice[s] = NoChoice)
            /\ Len(handed[s]) = 1
            /\ handed[s][1].op = "pick_file"
            /\ handed[s][1].cfg = ExpectedConfig(hist[s])
            /\ (pc[s] = "done" /\ choice[s].kind = "cancel") => result[s] = None
            /\ (pc[s] = "done" /\ choice[s].kind = "confirm") =>
                   result[s] = Some(FileHandle_wrap(choice[s].sel[1]))

\* Two asynchronous pick_file calls with different configurations, both in
\* flight, completed second one first, with different choices.
C5_Witness ==
    /\ kind = <<"async", "async">>
    /\ called = <<"pick_file", "pick_file">>
    /\ completed = <<2, 1>>
    /\ handed[1][1].cfg # handed[2][1].cfg
    /\ handed[1][1].cfg.filters # <<>>
    /\ choice[1] = Confirm(<<"/a.txt">>)
    /\ choice[2] = Confirm(<<"/b.png">>)
    /\ result[1] = Some(FileHandle_wrap("/a.txt"))
    /\ result[2] = Some(FileHandle_wrap("/b.png"))

\* ------------------------------------------------------------------ C6

\* C6: show calls the native layer once, with the dialog's text, level and
\* buttons as they are, for every text, level and button set.
C6_ShowPassesConfiguration ==
    \A s \in Slots :
        called[s] = "show" =>
            /\ Len(handed[s]) = 1
            /\ handed[s][1].op = "show"
            /\ handed[s][1].cfg = builder[s]
            /\ handed[s][1].cfg.text = ExpectedText(hist[s])

\* The dialog with level Error, buttons YesNo and text "Delete?" is shown.
C6_Witness ==
    \E s \in Slots :
        /\ called[s] = "show"
        /\ builder[s] = [text |-> "Delete?", level |-> "Error", buttons |-> "YesNo"]
        /\ handed[s] = << [op |-> "show", cfg |-> builder[s], value |-> Gen(s)] >>

\* ------------------------------------------------------------------ C7

\* C7: every builder value is passed as self at most once, a binding whose
\* value went to a terminal operation is dead, a live binding holds a value
\* not yet used, and each binding reaches the native layer at most once.
C7_OneShot ==
    \A s \in Slots :
        /\ NoDuplicates(uses[s])
        /\ Len(handed[s]) <= 1
        /\ live[s] => (handed[s] = <<>> /\ called[s] = "")
        /\ live[s] => \A i \in 1..Len(uses[s]) : uses[s][i] # Gen(s)
        /\ ~live[s] => (Len(handed[s]) = 1 /\ handed[s][1].value = Gen(s)
                        /\ uses[s][Len(uses[s])] = Gen(s))

\* Both bindings consumed by a terminal operation, one after two builder calls.
C7_Witness ==
    /\ \A s \in Slots : ~live[s] /\ Len(handed[s]) = 1
    /\ \E s \in Slots : Len(uses[s]) = 3

\* ------------------------------------------------------------------ C8

\* C8: the FileDialog wrapped by an AsyncFileDialog is the one the same
\* calls build on a FileDialog, after every call, and it is what every
\* asynchronous terminal operation hands to the native layer.
C8_AsyncMatchesSync ==
    /\ \A a \in Slots :
           kind[a] = "async" =>
               /\ builder[a].file_dialog = SyncReplay(hist[a])
               /\ \A i \in 1..Len(handed[a]) :
                      /\ handed[a][i].cfg = builder[a].file_dialog
                      /\ handed[a][i].op = called[a]
    /\ \A s, a \in Slots :
           (kind[s] = "sync" /\ kind[a] = "async" /\ hist[s] = hist[a]) =>
               builder[a].file_dialog = builder[s]

\* An asynchronous builder after add_filter and set_directory calls, handed
\* to the native layer.
C8_Witness ==
    \E a \in Slots :
        /\ kind[a] = "async"
        /\ Len(hist[a]) = 3
        /\ SelectSeq(hist[a], IsAddFilter) # <<>>
        /\ SelectSeq(hist[a], IsSetDirectory) # <<>>
        /\ Len(handed[a]) = 1

\* ------------------------------------------------------------------ C9

LastCall(h) == h[Len(h)]

FrameOfCall(s) ==
    hist'[s] # hist[s] =>
        LET old == Config(s)
            new == ConfigOf(kind[s], builder'[s])
        IN  /\ IsAddFilter(LastCall(hist'[s])) =>
                /\ new.starting_directory = old.starting_directory
                /\ Len(new.filters) = Len(old.filters) + 1
                /\ SubSeq(new.filters, 1, Len(old.filters)) = old.filters
            /\ IsSetDirectory(LastCall(hist'[s])) =>
                new.filters = old.filters

FreshIsEmpty(s) ==
    hist[s] = <<>> =>
        (Config(s).filters = <<>> /\ Config(s).starting_directory = None)

\* C9: a builder fresh from new() has no filter and no starting directory;
\* add_filter leaves starting_directory and the filters already present as
\* they are and adds one filter at the end; set_directory leaves the filters
\* as they are.
C9_BuilderFrame ==
    [][\A s \in Slots : IsFileDialog(s) => (FreshIsEmpty(s) /\ FrameOfCall(s))]_vars

\* add_filter called on a builder that has a directory and a filter.
C9_Witness ==
    \E s \in Slots :
        /\ IsFileDialog(s)
        /\ Len(hist[s]) = 3
        /\ IsAddFilter(hist[s][1])
        /\ IsSetDirectory(hist[s][2])
        /\ IsAddFilter(hist[s][3])
        /\ Config(s).starting_directory # None

\* ------------------------------------------------------------------ C10

\* C10: a MessageDialog built by new() and set_text calls has level Info,
\* buttons Ok and the text of the last set_text call (empty when there was
\* none), and is shown so.
C10_MessageDefaults ==
    \A s \in Slots :
        kind[s] = "message" =>
            /\ builder[s].level = "Info"
            /\ builder[s].buttons = "Ok"
            /\ builder[s].text = ExpectedText(hist[s])
            /\ \A i \in 1..Len(handed[s]) :
                   handed[s][i].cfg =
                       [text |-> ExpectedText(hist[s]), level |-> "Info", buttons |-> "Ok"]

\* A message dialog shown after two set_text calls with different texts.
C10_Witness ==
    \E s \in Slots :
        /\ kind[s] = "message"
        /\ called[s] = "show"
        /\ Len(hist[s]) = 2
        /\ hist[s][1].arg # hist[s][2].arg
        /\ hist[s][1].arg # ""
        /\ handed[s][1].cfg.text = hist[s][2].arg

====
